---- MODULE Spec2Model ----
(***************************************************************************)
(* A model of api.py: the doxygen-XML to JSON extraction script.           *)
(*                                                                         *)
(*   - concurrent_pool_iter, the ordered parallel map over a lazily        *)
(*     created, process-wide thread or process pool;                       *)
(*   - parse_location, parse_memberdef, parse_file_or_group,              *)
(*     parse_struct, process_compound: one compound document to nodes;     *)
(*   - parse_all and the __main__ block: index filtering, shuffle,         *)
(*     dispatch, merge into the global nodes list, JSON encoding.          *)
(*                                                                         *)
(* Python values that may be None, or that live next to values of another  *)
(* type in one list, are tagged records ([t |-> "None"], [t |-> "int",     *)
(* i |-> 3], [t |-> "list", items |-> <<...>>], [t |-> "obj", ...]).       *)
(* A Python object is its class name and its instance __dict__; a class    *)
(* attribute is found by attribute lookup but is not in __dict__.          *)
(***************************************************************************)
EXTENDS Integers, Sequences, FiniteSets, TLC

VARIABLES
    process_executor,   \* module global: 0 (None) or the id of the process pool
    thread_executor,    \* module global: 0 (None) or the id of the thread pool
    pools,              \* every pool ever constructed: <<[flavour, workers, submitted, alive]>>
    calls,              \* log of the concurrent_pool_iter calls made so far
    call,               \* the arguments and locals of the latest call
    it,                 \* the state of the iterator that call returned
    events,             \* what the caller of next() has observed, in order
    pc,                 \* position of the __main__ block
    xml,                \* the input directory: index.xml and <id>.xml documents
    ids,                \* parse_all's local list of ids, after the shuffle
    nodes,              \* module global nodes
    warnings,           \* lines written by warning()
    output,             \* what print() wrote to stdout
    probe               \* input and result of a single pure-function call

vars == <<process_executor, thread_executor, pools, calls, call, it, events,
          pc, xml, ids, nodes, warnings, output, probe>>

poolVars == <<process_executor, thread_executor, pools, calls, call, it, events>>
mainVars == <<pc, xml, ids, nodes, warnings, output>>

(***************************************************************************)
(* Bounds of the model.                                                    *)
(***************************************************************************)
MaxLen == 3         \* longest input collection of a dispatcher call
MaxWorkers == 2     \* largest os.cpu_count()
MaxCalls == 3       \* dispatcher calls within one process

(***************************************************************************)
(* Generic helpers.                                                        *)
(***************************************************************************)
Range(s) == {s[i] : i \in DOMAIN s}

SeqsUpTo(S, n) == UNION {[1..k -> S] : k \in 0..n}

Min(S) == CHOOSE x \in S : \A y \in S : x <= y

Last(s) == s[Len(s)]

PyNone == [t |-> "None"]

(***************************************************************************)
(* concurrent_pool_iter                                                    *)
(***************************************************************************)
\* The items a collection is drawn from.
Items == {1, 2}

\* What func does for one item: return a value, or raise.
Raises == [ok |-> FALSE]
Returns(v) == [ok |-> TRUE, val |-> v]

Funcs == [Items -> {Returns(10 * v) : v \in Items} \cup {Raises}]

Iterables == SeqsUpTo(Items, MaxLen)

Thresholds == 0..(MaxLen + 1)

\* os.cpu_count(): None (written 0 here) or a positive count.
CpuCounts == 0..MaxWorkers

IdleCall ==
    [func |-> <<>>, collected |-> <<>>, use_process |-> FALSE, threshold |-> 0,
     executor_workers |-> 0, chunksize |-> 0, executor |-> 0, mode |-> "idle"]

IdleIter ==
    [mapPos |-> 0, colPos |-> 0, tasks |-> <<>>, fsPos |-> 0, buf |-> <<>>,
     closed |-> FALSE]

\* len(collected) >= threshold
UsePool(n, threshold) == n >= threshold

\* executor_workers after lines 119-121
ExecutorWorkers(cpu) == IF cpu < 1 THEN 1 ELSE cpu

\* chunksize = (len(collected) + executor_workers - 1) // executor_workers
ChunkSize(n, w) == (n + w - 1) \div w

\* A pool constructor that runs on every pooled call.
IsNoneExecutor_Always(executor) == TRUE

\* `if process_executor is None` / `if thread_executor is None`
IsNoneExecutor(executor) == executor = 0

\* Items per submitted task: ProcessPoolExecutor.map batches by chunksize,
\* ThreadPoolExecutor.map ignores chunksize and submits one call per item.
TaskSize(c) == IF c.use_process THEN c.chunksize ELSE 1

NumTasks(n, size) == IF size < 1 THEN 0 ELSE (n + size - 1) \div size

\* The input positions (1-based) that task j computes.
TaskItems(c, j) ==
    LET size == TaskSize(c)
        hi == j * size
    IN ((j - 1) * size + 1)..(IF hi < Len(c.collected) THEN hi ELSE Len(c.collected))

\* The result of task j's future: the list of its items' values, or the
\* exception of the first item in it for which func raises.
TaskResult(c, j) ==
    LET ps == TaskItems(c, j)
        lo == Min(ps)
        failing == {p \in ps : ~c.func[c.collected[p]].ok}
    IN IF failing = {}
       THEN [ok |-> TRUE,
             vals |-> [i \in 1..Cardinality(ps) |-> c.func[c.collected[lo + i - 1]].val]]
       ELSE [ok |-> FALSE, at |-> Min(failing) - 1]

\* What one run of func wrote to stderr.
Warned(r) == IF "warn" \in DOMAIN r THEN r.warn ELSE <<>>

\* What task j wrote to stderr: the output of its items up to and including
\* the first for which func raises.
RECURSIVE WarningsFrom(_, _, _)
WarningsFrom(c, p, hi) ==
    IF p > hi THEN <<>>
    ELSE LET r == c.func[c.collected[p]]
         IN Warned(r) \o (IF r.ok THEN WarningsFrom(c, p + 1, hi) ELSE <<>>)

TaskWarnings(c, j) ==
    LET ps == TaskItems(c, j)
    IN IF ps = {} THEN <<>> ELSE WarningsFrom(c, Min(ps), Min(ps) + Cardinality(ps) - 1)

\* Events seen by the caller of next().
EvItem(v, item, index) == [e |-> "item", res |-> v, item |-> item, index |-> index]
EvRaise(at) == [e |-> "raise", at |-> at]
EvStop == [e |-> "stop"]

\* zip(it, collected, range(len(collected))): the second and third iterators
\* advance together, and only after `it` has produced a value.
ZipTriple(c, i, v) == EvItem(v, c.collected[i.colPos + 1], i.colPos)

\* next() on zip(map(func, collected), ...): the builtin map stays usable
\* after func raised, and has then already consumed the failing item.
SeqNext(c, i) ==
    IF i.mapPos >= Len(c.collected)
    THEN [ev |-> EvStop, it |-> i]
    ELSE LET r == c.func[c.collected[i.mapPos + 1]]
         IN IF r.ok
            THEN [ev |-> ZipTriple(c, i, r.val),
                  it |-> [i EXCEPT !.mapPos = @ + 1, !.colPos = @ + 1]]
            ELSE [ev |-> EvRaise(i.mapPos),
                  it |-> [i EXCEPT !.mapPos = @ + 1]]

\* future.cancel() in the finally clause of Executor.map's generator: a
\* future that has not started is cancelled, a running one is left alone.
CancelPending(tasks) ==
    IF tasks = <<>> THEN <<>>
    ELSE [j \in DOMAIN tasks |-> IF tasks[j] = "queued" THEN "cancelled" ELSE tasks[j]]

\* next() on zip(executor.map(func, collected, chunksize), ...): the map is
\* a generator over the futures in submission order; a future's exception
\* ends the generator.
PoolNext(c, i) ==
    IF i.closed
    THEN [ev |-> EvStop, it |-> i]
    ELSE IF i.buf # <<>>
    THEN [ev |-> ZipTriple(c, i, Head(i.buf)),
          it |-> [i EXCEPT !.buf = Tail(@), !.colPos = @ + 1]]
    ELSE IF i.fsPos >= Len(i.tasks)
    THEN [ev |-> EvStop, it |-> [i EXCEPT !.closed = TRUE]]
    ELSE LET r == TaskResult(c, i.fsPos + 1)
         IN IF r.ok
            THEN [ev |-> ZipTriple(c, i, Head(r.vals)),
                  it |-> [i EXCEPT !.fsPos = @ + 1, !.buf = Tail(r.vals),
                                   !.colPos = @ + 1]]
            ELSE [ev |-> EvRaise(r.at),
                  it |-> [i EXCEPT !.fsPos = @ + 1, !.closed = TRUE,
                                   !.tasks = CancelPending(@)]]

\* next() blocks until the future it waits for is done.
IterReady(c, i) ==
    IF c.mode = "seq" THEN TRUE
    ELSE IF c.mode # "pool" THEN FALSE
    ELSE IF i.closed \/ i.buf # <<>> \/ i.fsPos >= Len(i.tasks) THEN TRUE
    ELSE i.tasks[i.fsPos + 1] = "done"

IterNext(c, i) == IF c.mode = "seq" THEN SeqNext(c, i) ELSE PoolNext(c, i)

\* The call itself, lines 116-134.
ConcurrentPoolIter(func, iterable, use_process, threshold, cpu) ==
    LET collected == iterable
        n == Len(collected)
        w == ExecutorWorkers(cpu)
        cs == ChunkSize(n, w)
        global == IF use_process THEN process_executor ELSE thread_executor
        create == IsNoneExecutor(global)
        executor == IF create THEN Len(pools) + 1 ELSE global
        c == [func |-> func, collected |-> collected, use_process |-> use_process,
              threshold |-> threshold, executor_workers |-> w, chunksize |-> cs,
              executor |-> executor, mode |-> "pool"]
        \* ProcessPoolExecutor.map: chunksize < 1 raises ValueError
        rejected == use_process /\ cs < 1
        ntasks == IF rejected THEN 0 ELSE NumTasks(n, TaskSize(c))
        made == IF create
                THEN Append(pools, [flavour |-> IF use_process THEN "process" ELSE "thread",
                                    workers |-> w, submitted |-> 0, alive |-> TRUE])
                ELSE pools
    IN /\ calls' = Append(calls, [use_process |-> use_process,
                                  pooled |-> UsePool(n, threshold),
                                  created |-> UsePool(n, threshold) /\ create,
                                  executor |-> IF UsePool(n, threshold) THEN executor ELSE 0,
                                  submitted |-> IF UsePool(n, threshold) THEN ntasks ELSE 0])
       /\ IF UsePool(n, threshold)
          THEN /\ process_executor' = IF use_process THEN executor ELSE process_executor
               /\ thread_executor' = IF use_process THEN thread_executor ELSE executor
               /\ pools' = [made EXCEPT ![executor].submitted = @ + ntasks]
               /\ call' = [c EXCEPT !.mode = IF rejected THEN "ValueError" ELSE "pool"]
               /\ it' = [IdleIter EXCEPT !.tasks = IF ntasks = 0 THEN <<>>
                                                    ELSE [j \in 1..ntasks |-> "queued"]]
          ELSE /\ UNCHANGED <<process_executor, thread_executor, pools>>
               /\ call' = [c EXCEPT !.mode = "seq", !.executor = 0,
                                    !.executor_workers = 0, !.chunksize = 0]
               /\ it' = IdleIter

(***************************************************************************)
(* The dispatcher on its own: calls with arbitrary arguments, the pool's   *)
(* workers, and a caller that drains the returned iterator.                *)
(***************************************************************************)
LastIs(evs, kinds) == IF evs = <<>> THEN FALSE ELSE Last(evs).e \in kinds

\* One call, with arbitrary arguments, in a fresh process.
CallOnce ==
    /\ calls = <<>>
    /\ \E func \in Funcs, iterable \in Iterables, use_process \in BOOLEAN,
          threshold \in Thresholds, cpu \in CpuCounts :
          ConcurrentPoolIter(func, iterable, use_process, threshold, cpu)
    /\ events' = <<>>
    /\ UNCHANGED <<mainVars, probe>>

\* The caller is done with the previous call: the call raised, or its
\* iterator ended or raised.
CallFinished ==
    IF call.mode \in {"idle", "ValueError"} THEN TRUE
    ELSE LastIs(events, {"stop", "raise"})

\* A further call in the same process.  Pool handling reads only the size, the
\* flavour and the threshold, so func is fixed, the collections differ in size
\* only, the thresholds are the smallest and the largest ones and the cpu
\* count is unknown or the largest.
CallAgain ==
    /\ Len(calls) < MaxCalls
    /\ CallFinished
    /\ \E n \in 0..MaxLen, use_process \in BOOLEAN,
          threshold \in {0, 1, MaxLen, MaxLen + 1}, cpu \in {0, MaxWorkers} :
          ConcurrentPoolIter([x \in Items |-> Returns(10 * x)], [k \in 1..n |-> 1],
                             use_process, threshold, cpu)
    /\ events' = <<>>
    /\ UNCHANGED <<mainVars, probe>>

\* A worker of the pool in use picks up the oldest queued task; the pool has
\* the number of workers it was constructed with.
StartTask ==
    /\ call.mode = "pool"
    /\ Cardinality({j \in DOMAIN it.tasks : it.tasks[j] = "running"})
          < pools[call.executor].workers
    /\ \E j \in DOMAIN it.tasks :
          /\ it.tasks[j] = "queued"
          /\ \A k \in 1..(j - 1) : it.tasks[k] # "queued"
          /\ it' = [it EXCEPT !.tasks[j] = "running"]
    /\ UNCHANGED <<process_executor, thread_executor, pools, calls, call, events,
                   mainVars, probe>>

\* Any running task may be the next to finish; what func wrote to stderr
\* while the task ran is out by then.
FinishTask ==
    /\ call.mode = "pool"
    /\ \E j \in DOMAIN it.tasks :
          /\ it.tasks[j] = "running"
          /\ it' = [it EXCEPT !.tasks[j] = "done"]
          /\ warnings' = warnings \o TaskWarnings(call, j)
    /\ UNCHANGED <<process_executor, thread_executor, pools, calls, call, events,
                   pc, xml, ids, nodes, output, probe>>

\* The caller asks the iterator for its next element.
Consume ==
    /\ call.mode \in {"seq", "pool"}
    /\ ~LastIs(events, {"stop"})
    /\ IterReady(call, it)
    /\ LET r == IterNext(call, it)
       IN /\ it' = r.it
          /\ events' = Append(events, r.ev)
    /\ UNCHANGED <<process_executor, thread_executor, pools, calls, call,
                   mainVars, probe>>

InitPoolVars ==
    /\ process_executor = 0
    /\ thread_executor = 0
    /\ pools = <<>>
    /\ calls = <<>>
    /\ call = IdleCall
    /\ it = IdleIter
    /\ events = <<>>

InitMainVars ==
    /\ pc = "idle"
    /\ xml = [index |-> <<>>]
    /\ ids = <<>>
    /\ nodes = <<>>
    /\ warnings = <<>>
    /\ output = PyNone

InitPool == InitPoolVars /\ InitMainVars /\ probe = [fn |-> "none"]

NextPool == CallOnce \/ StartTask \/ FinishTask \/ Consume

SpecPool == InitPool /\ [][NextPool]_vars

NextReuse == CallAgain \/ StartTask \/ FinishTask \/ Consume

SpecReuse == InitPool /\ [][NextReuse]_vars

(***************************************************************************)
(* Python values.                                                          *)
(***************************************************************************)
\* A str is written as a TLA+ string (ids, names, kinds), or as the sequence
\* of its characters where the code looks inside it (file names, types).
PyStr(s) == [t |-> "str", s |-> s]
PyChars(c) == [t |-> "chars", c |-> c]
PyInt(i) == [t |-> "int", i |-> i]
PyBool(b) == [t |-> "bool", b |-> b]
PyList(items) == [t |-> "list", items |-> items]
PySet(elems) == [t |-> "set", elems |-> elems]

\* An instance: its class and its __dict__.
PyObj(cls, dict) == [t |-> "obj", cls |-> cls, dict |-> dict]

\* An attribute a record does not have at all (hasattr is False).
Missing == [t |-> "missing"]

\* Truth value of a Python value.
Truthy(v) ==
    CASE v.t = "None" -> FALSE
      [] v.t = "str" -> v.s # ""
      [] v.t = "chars" -> v.c # <<>>
      [] v.t = "int" -> v.i # 0
      [] v.t = "bool" -> v.b
      [] v.t = "list" -> v.items # <<>>
      [] v.t = "set" -> v.elems # {}
      [] OTHER -> TRUE

\* str.endswith on character sequences.
EndsWith(s, suffix) ==
    /\ Len(s) >= Len(suffix)
    /\ SubSeq(s, Len(s) - Len(suffix) + 1, Len(s)) = suffix

HEADER_FILE_EXTENSION == <<".", "h">>

(***************************************************************************)
(* class Node and its subclasses                                           *)
(***************************************************************************)
\* Attributes defined in the class bodies: found by attribute lookup, not
\* part of an instance's __dict__.
ClassAttrs(cls) ==
    LET node == [kind |-> PyStr(""), name |-> PyStr(""), file |-> PyChars(<<>>),
                 line |-> PyStr(""), parent_ids |-> PyNone,
                 children_ids |-> PyNone, desc |-> PyStr("")]
    IN CASE cls = "File" -> [kind |-> PyStr("file")] @@ node
         [] cls = "Group" -> [kind |-> PyStr("group"), title |-> PyStr("")] @@ node
         [] cls = "Function" -> [kind |-> PyStr("func"), return_type |-> PyChars(<<"v", "o", "i", "d">>)] @@ node
         [] cls = "Struct" -> node
         [] OTHER -> << >>

GetAttr(o, a) == IF a \in DOMAIN o.dict THEN o.dict[a] ELSE ClassAttrs(o.cls)[a]

SetAttr(o, a, v) == [o EXCEPT !.dict = (a :> v) @@ @]

\* Node.__init__
NewNode(cls, id, name) == PyObj(cls, [id |-> PyStr(id), name |-> PyStr(name)])

\* Struct.__init__
NewStruct(id, name, is_union) ==
    SetAttr(SetAttr(NewNode("Struct", id, name), "is_union", PyBool(is_union)),
            "kind", PyStr(IF is_union THEN "union" ELSE "struct"))

\* Function.__init__
NewFunction(id, name) == SetAttr(NewNode("Function", id, name), "params", PyList(<<>>))

\* An add_child that starts a new set on every call.
AddChild_FreshSet(o, child) == SetAttr(o, "children_ids", PySet({child}))

\* Node.add_child
AddChild(o, child) ==
    LET cur == GetAttr(o, "children_ids")
        base == IF ~Truthy(cur) THEN {} ELSE cur.elems
    IN SetAttr(o, "children_ids", PySet(base \cup {child}))

\* Node.add_parent; nothing in the script calls it.
AddParent(o, parent) ==
    LET cur == GetAttr(o, "parent_ids")
        base == IF ~Truthy(cur) THEN {} ELSE cur.elems
    IN SetAttr(o, "parent_ids", PySet(base \cup {parent}))

\* Function.add_param, followed by the assignments parse_function makes to
\* the new Param.
AddParam(func, desc, name, type) ==
    LET params == GetAttr(func, "params").items
        param == PyObj("Param", [index |-> PyInt(Len(params)), desc |-> desc,
                                 name |-> name, type |-> type])
    IN SetAttr(func, "params", PyList(Append(params, param)))

(***************************************************************************)
(* parse_location                                                          *)
(***************************************************************************)
\* A location record: the attributes it has, each None or a value.
Loc(bodyfile, bodystart, file, line, declfile, declline) ==
    LET given == [bodyfile |-> bodyfile, bodystart |-> bodystart, file |-> file,
                  line |-> line, declfile |-> declfile, declline |-> declline]
    IN [t |-> "loc",
        attrs |-> [a \in {x \in DOMAIN given : given[x] # Missing} |-> given[a]]]

\* A candidate test that forgets the suffix filter.
IsHeaderCandidate_AnyFile(loc, a) ==
    IF a \notin DOMAIN loc.attrs THEN FALSE ELSE Truthy(loc.attrs[a])

\* hasattr(loc, a) and loc.a and loc.a.endswith(HEADER_FILE_EXTENSION)
IsHeaderCandidate(loc, a) ==
    IF a \notin DOMAIN loc.attrs THEN FALSE
    ELSE IF ~Truthy(loc.attrs[a]) THEN FALSE
    ELSE EndsWith(loc.attrs[a].c, HEADER_FILE_EXTENSION)

\* loc.a if hasattr(loc, a) else None
AttrOrNone(loc, a) == IF a \in DOMAIN loc.attrs THEN loc.attrs[a] ELSE PyNone

\* The elif chain: the file attribute and the line attribute of the branch
\* taken, <<>> when none is.
LocationBranch(loc) ==
    IF IsHeaderCandidate(loc, "bodyfile") THEN <<"bodyfile", "bodystart">>
    ELSE IF IsHeaderCandidate(loc, "file") THEN <<"file", "line">>
    ELSE IF IsHeaderCandidate(loc, "declfile") THEN <<"declfile", "declline">>
    ELSE <<>>

ParseLocation(node, compound) ==
    LET loc == compound.location
    IN IF ~Truthy(loc)
       THEN SetAttr(SetAttr(node, "file", PyChars(<<>>)), "line", PyNone)
       ELSE LET branch == LocationBranch(loc)
            IN IF branch = <<>>
               THEN SetAttr(SetAttr(node, "file", PyChars(<<>>)), "line", PyNone)
               ELSE SetAttr(SetAttr(node, "file", loc.attrs[branch[1]]),
                            "line", AttrOrNone(loc, branch[2]))

(***************************************************************************)
(* parse_description, parse_type, parse_function, parse_memberdef          *)
(***************************************************************************)
ParseDescription == PyStr("")

RECURSIVE FlattenParts(_)
FlattenParts(parts) ==
    IF parts = <<>> THEN <<>>
    ELSE LET part == Head(parts)
             text == IF part.category = "text" THEN part.value
                     ELSE IF part.category = "complex" /\ part.name = "ref"
                     THEN part.value
                     ELSE <<>>
         IN text \o FlattenParts(Tail(parts))

\* parse_type: 'void' for a missing type, else the concatenated fragments.
ParseType(type) ==
    IF ~Truthy(type) THEN PyChars(<<"v", "o", "i", "d">>)
    ELSE PyChars(FlattenParts(type.content_))

RECURSIVE AddParams(_, _)
AddParams(func, dox_params) ==
    IF dox_params = <<>> THEN func
    ELSE AddParams(AddParam(func, ParseDescription, PyStr(Head(dox_params).declname),
                            ParseType(Head(dox_params).type)),
                   Tail(dox_params))

ParseFunction(memberdef) ==
    LET f1 == ParseLocation(NewFunction(memberdef.id, memberdef.name), memberdef)
        f2 == SetAttr(f1, "desc", ParseDescription)
        f3 == AddParams(f2, memberdef.param)
    IN SetAttr(f3, "return_type", ParseType(memberdef.type))

\* memberdef.kind == DoxMemberKind.FUNCTION
IsFunctionMember(memberdef) == memberdef.kind = "function"

ParseMemberdef(memberdef) ==
    IF IsFunctionMember(memberdef) THEN <<ParseFunction(memberdef)>> ELSE <<>>

(***************************************************************************)
(* parse_file_or_group, parse_file, parse_group, parse_struct              *)
(***************************************************************************)
RECURSIVE AddChildren(_, _)
AddChildren(node, refids) ==
    IF refids = <<>> THEN node
    ELSE AddChildren(AddChild(node, Head(refids)), Tail(refids))

NodeId(o) == o.dict.id.s

\* The ids of a list of nodes, in order.
IdsOf(children) == [i \in DOMAIN children |-> NodeId(children[i])]

\* The loop over sectiondef.memberdef: <<node, result>> after it.
RECURSIVE MemberdefLoop(_, _, _)
MemberdefLoop(node, result, memberdefs) ==
    IF memberdefs = <<>> THEN <<node, result>>
    ELSE LET children == ParseMemberdef(Head(memberdefs))
         IN MemberdefLoop(AddChildren(node, IdsOf(children)), result \o children,
                          Tail(memberdefs))

\* The loop over compound.sectiondef: <<node, result>> after it.
RECURSIVE SectiondefLoop(_, _, _)
SectiondefLoop(node, result, sectiondefs) ==
    IF sectiondefs = <<>> THEN <<node, result>>
    ELSE LET sectiondef == Head(sectiondefs)
             n1 == AddChildren(node, sectiondef.member)
             r == MemberdefLoop(n1, result, sectiondef.memberdef)
         IN SectiondefLoop(r[1], r[2], Tail(sectiondefs))

\* result[0] is the node object itself, so it shows every later add_child.
\* An innerclass, innergroup, sectiondef or memberdef list that is None or
\* empty is the empty sequence (`x or []`).
ParseFileOrGroup(node, compound) ==
    LET n1 == ParseLocation(node, compound)
        n2 == SetAttr(n1, "desc", ParseDescription)
        n3 == AddChildren(n2, compound.innerclass \o compound.innergroup)
        r == SectiondefLoop(n3, <<>>, compound.sectiondef)
    IN <<r[1]>> \o r[2]

ParseFile(compound) ==
    ParseFileOrGroup(NewNode("File", compound.id, compound.compoundname), compound)

ParseGroup(compound) ==
    ParseFileOrGroup(SetAttr(NewNode("Group", compound.id, compound.compoundname),
                             "title", PyStr(compound.title)),
                     compound)

\* parse_struct returns the node itself, not a list.
ParseStruct(compound, is_union) ==
    SetAttr(ParseLocation(NewStruct(compound.id, compound.compoundname, is_union),
                          compound),
            "desc", ParseDescription)

(***************************************************************************)
(* The parsers on their own: one call of parse_location, parse_file or     *)
(* parse_group on an input drawn from a bounded set of records.            *)
(***************************************************************************)
MaxSections == 2    \* most sectiondefs of a compound

\* What a location's file attribute may be: no such attribute, None, the
\* empty string, a header, a source file, a name that ends in h without the
\* dot, and the bare suffix.
FileOpts(ch) ==
    {Missing, PyNone, PyChars(<<>>), PyChars(<<ch, ".", "h">>),
     PyChars(<<ch, ".", "c">>), PyChars(<<ch, "h">>), PyChars(<<".", "h">>)}

LineOpts(k) == {Missing, PyNone, PyInt(k)}

Locations ==
    {PyNone} \cup
    {Loc(bf, bs, f, l, df, dl) :
        bf \in FileOpts("b"), bs \in LineOpts(1), f \in FileOpts("f"),
        l \in LineOpts(2), df \in FileOpts("d"), dl \in LineOpts(3)}

HeaderLoc == Loc(Missing, Missing, PyChars(<<"x", ".", "h">>), PyInt(7), PyNone, PyNone)

IntType ==
    [t |-> "linkedText",
     content_ |-> <<[category |-> "text", name |-> "", value |-> <<"c", "o", "n", "s", "t", " ">>],
                    [category |-> "complex", name |-> "ref", value |-> <<"f", "o", "o">>],
                    [category |-> "text", name |-> "", value |-> <<" ", "*">>]>>]

MemberDef(kind, id, location, param, type) ==
    [kind |-> kind, id |-> id, name |-> id, location |-> location, param |-> param,
     type |-> type]

FuncOne == MemberDef("function", "m1", HeaderLoc, <<[declname |-> "x", type |-> IntType]>>, IntType)
FuncTwo == MemberDef("function", "m2", PyNone, <<>>, PyNone)
VarOne == MemberDef("variable", "v1", HeaderLoc, <<>>, IntType)

SectionDefs ==
    [member : {<<>>, <<"r1">>, <<"r1", "m1">>},
     memberdef : {<<>>, <<FuncOne>>, <<VarOne>>, <<FuncTwo>>, <<FuncOne, VarOne, FuncTwo>>}]

CompoundDef(kind, id, title, location, innerclass, innergroup, sectiondef) ==
    [kind |-> kind, id |-> id, compoundname |-> id, title |-> title,
     location |-> location, innerclass |-> innerclass, innergroup |-> innergroup,
     sectiondef |-> sectiondef]

Containers ==
    {CompoundDef(kind, "x", "X", HeaderLoc, ic, ig, sd) :
        kind \in {"file", "group"},
        ic \in {<<>>, <<"c1">>, <<"c1", "c2">>},
        ig \in {<<>>, <<"g1">>},
        sd \in SeqsUpTo(SectionDefs, MaxSections)}

Probes ==
    {[fn |-> "parse_location", in |-> [location |-> loc], out |-> PyNone] :
        loc \in Locations}
    \cup {[fn |-> IF c.kind = "file" THEN "parse_file" ELSE "parse_group",
           in |-> c, out |-> PyNone] : c \in Containers}

ParseLocationStep ==
    /\ probe.fn = "parse_location"
    /\ probe.out = PyNone
    /\ probe' = [probe EXCEPT !.out = ParseLocation(NewNode("File", "x", "x"), probe.in)]
    /\ UNCHANGED <<poolVars, mainVars>>

ParseFileStep ==
    /\ probe.fn = "parse_file"
    /\ probe.out = PyNone
    /\ probe' = [probe EXCEPT !.out = PyList(ParseFile(probe.in))]
    /\ UNCHANGED <<poolVars, mainVars>>

ParseGroupStep ==
    /\ probe.fn = "parse_group"
    /\ probe.out = PyNone
    /\ probe' = [probe EXCEPT !.out = PyList(ParseGroup(probe.in))]
    /\ UNCHANGED <<poolVars, mainVars>>

InitParse == InitPoolVars /\ InitMainVars /\ probe \in Probes

NextParse == ParseLocationStep \/ ParseFileStep \/ ParseGroupStep

SpecParse == InitParse /\ [][NextParse]_vars

(***************************************************************************)
(* process_compound                                                        *)
(***************************************************************************)
\* The loop over get_compounddef(): the result list and the warnings.
RECURSIVE CompoundLoop(_, _)
CompoundLoop(compounddefs, acc) ==
    IF compounddefs = <<>> THEN acc
    ELSE LET compound == Head(compounddefs)
             next ==
                 IF compound.kind = "file"
                 THEN [acc EXCEPT !.val = Append(@, PyList(ParseFile(compound)))]
                 ELSE IF compound.kind = "group"
                 THEN [acc EXCEPT !.val = Append(@, PyList(ParseGroup(compound)))]
                 ELSE IF compound.kind \in {"struct", "class", "union"}
                 THEN [acc EXCEPT !.val = Append(@, ParseStruct(compound, compound.kind = "union"))]
                 ELSE [acc EXCEPT !.warn = Append(@, [src |-> "compound", kind |-> compound.kind])]
         IN CompoundLoop(Tail(compounddefs), next)

\* dox_compound.parse raises for a document it cannot decode; otherwise the
\* call returns the list built by the loop.
ProcessCompound(docs, id) ==
    IF ~docs[id].ok THEN [ok |-> FALSE, warn |-> <<>>]
    ELSE CompoundLoop(docs[id].compounddef, [ok |-> TRUE, val |-> <<>>, warn |-> <<>>])

(***************************************************************************)
(* parse_all                                                               *)
(***************************************************************************)
\* The threshold parse_all passes to concurrent_pool_iter.
DispatchThreshold == 20

\* First branch of the loop over index.get_compound(), with class left out.
IsParsedKind_NoClass(kind) == kind \in {"file", "group", "struct", "union"}

\* First branch of the loop over index.get_compound().
IsParsedKind(kind) == kind \in {"file", "group", "struct", "class", "union"}

\* Second branch.
IsSkippedKind(kind) == kind \in {"page", "dir", "category", "concept", "example"}

\* The loop over index.get_compound(): ids and warnings after it.
RECURSIVE IndexLoop(_, _)
IndexLoop(compounds, acc) ==
    IF compounds = <<>> THEN acc
    ELSE LET compound == Head(compounds)
             next ==
                 IF IsParsedKind(compound.kind)
                 THEN [acc EXCEPT !.ids = Append(@, compound.refid)]
                 ELSE IF IsSkippedKind(compound.kind)
                 THEN acc
                 ELSE [acc EXCEPT !.warnings = Append(@, [src |-> "index", kind |-> compound.kind])]
         IN IndexLoop(Tail(compounds), next)

InsertAt(s, i, x) == SubSeq(s, 1, i - 1) \o <<x>> \o SubSeq(s, i, Len(s))

\* random.shuffle: every ordering of the list is a possible outcome.
RECURSIVE Shuffles(_)
Shuffles(s) ==
    IF s = <<>> THEN {<<>>}
    ELSE {InsertAt(t, i, Head(s)) : t \in Shuffles(Tail(s)), i \in 1..Len(s)}

\* A loop that catches the exception and goes on.
AfterNext_Swallow(ev) ==
    CASE ev.e = "item" -> "loop"
      [] ev.e = "raise" -> "loop"
      [] ev.e = "stop" -> "parsed"

\* The for loop's reaction to what next() did: the body runs, the exception
\* leaves parse_all and the __main__ block, or the loop ends.
AfterNext(ev) ==
    CASE ev.e = "item" -> "loop"
      [] ev.e = "raise" -> "failed"
      [] ev.e = "stop" -> "parsed"

\* parse_all up to the first next() of its for loop.
ParseAll ==
    /\ pc = "start"
    /\ LET r == IndexLoop(xml.index, [ids |-> <<>>, warnings |-> <<>>])
       IN \E shuffled \in Shuffles(r.ids), cpu \in CpuCounts :
             /\ ids' = shuffled
             /\ warnings' = warnings \o r.warnings
             /\ ConcurrentPoolIter([id \in Range(shuffled) |-> ProcessCompound(xml.docs, id)],
                                   shuffled, TRUE, DispatchThreshold, cpu)
    /\ pc' = IF call'.mode = "ValueError" THEN "failed" ELSE "loop"
    /\ events' = <<>>
    /\ UNCHANGED <<xml, nodes, output, probe>>

\* One turn of `for node, _, _ in ...: nodes.extend(node)`.
LoopNext ==
    /\ pc = "loop"
    /\ IterReady(call, it)
    /\ LET r == IterNext(call, it)
           ran == call.mode = "seq" /\ it.mapPos < Len(call.collected)
       IN /\ it' = r.it
          /\ events' = Append(events, r.ev)
          /\ nodes' = IF r.ev.e = "item" THEN nodes \o r.ev.res ELSE nodes
          /\ warnings' = IF ran
                         THEN warnings \o Warned(call.func[call.collected[it.mapPos + 1]])
                         ELSE warnings
          /\ pc' = AfterNext(r.ev)
    /\ UNCHANGED <<process_executor, thread_executor, pools, calls, call, xml, ids,
                   output, probe>>

(***************************************************************************)
(* MyEncoder(indent=4).encode(nodes)                                       *)
(***************************************************************************)
\* The ids held by the sets inside a value.
RECURSIVE SetElems(_)
SetElems(v) ==
    CASE v.t = "set" -> v.elems
      [] v.t = "list" -> UNION {SetElems(v.items[i]) : i \in DOMAIN v.items}
      [] v.t = "obj" -> UNION {SetElems(v.dict[k]) : k \in DOMAIN v.dict}
      [] OTHER -> {}

\* The orders in which the elements of S can be listed.
Orders(S) == {f \in [1..Cardinality(S) -> S] : Range(f) = S}

\* list(o) for a set o: its elements, in the order they have in ord.
ListOfSet(elems, ord) ==
    LET picked == SelectSeq(ord, LAMBDA x : x \in elems)
    IN [i \in DOMAIN picked |-> [j |-> "string", s |-> picked[i]]]

\* JSONEncoder with MyEncoder.default: lists, strings, numbers, booleans and
\* None are encoded natively; a set is replaced by list(o); any other object
\* is replaced by its __dict__.
RECURSIVE Encode(_, _)
Encode(v, ord) ==
    CASE v.t = "None" -> [j |-> "null"]
      [] v.t = "str" -> [j |-> "string", s |-> v.s]
      [] v.t = "chars" -> [j |-> "string", c |-> v.c]
      [] v.t = "int" -> [j |-> "number", i |-> v.i]
      [] v.t = "bool" -> [j |-> "bool", b |-> v.b]
      [] v.t = "list" -> [j |-> "array",
                          items |-> [i \in DOMAIN v.items |-> Encode(v.items[i], ord)]]
      [] v.t = "set" -> [j |-> "array", items |-> ListOfSet(v.elems, ord)]
      [] v.t = "obj" -> [j |-> "object",
                         members |-> [k \in DOMAIN v.dict |-> Encode(v.dict[k], ord)]]

\* print(MyEncoder(indent=4).encode(nodes)), reached only when parse_all
\* returned.
PrintOutput ==
    /\ pc = "parsed"
    /\ \E ord \in Orders(SetElems(PyList(nodes))) :
          output' = Encode(PyList(nodes), ord)
    /\ pc' = "done"
    /\ UNCHANGED <<poolVars, xml, ids, nodes, warnings, probe>>

(***************************************************************************)
(* The whole run on a bounded set of input directories.                    *)
(***************************************************************************)
MaxIndex == 2       \* longest index drawn freely

MemberIdOf(x) == CASE x = "a" -> "a_m" [] x = "b" -> "b_m" [] OTHER -> "p_m"

\* A file with an inner class, a member reference, a function definition
\* and a variable definition.
FileDef(x) ==
    CompoundDef("file", x, "", HeaderLoc, <<"b">>, <<>>,
                <<[member |-> <<"r1">>,
                   memberdef |-> <<MemberDef("function", MemberIdOf(x), HeaderLoc,
                                             <<[declname |-> "x", type |-> IntType]>>, PyNone),
                                   VarOne>>]>>)

\* A group with no children at all.
GroupDef(x) == CompoundDef("group", x, "Title", PyNone, <<>>, <<>>, <<>>)

PlainDef(kind, x) == CompoundDef(kind, x, "", HeaderLoc, <<>>, <<>>, <<>>)

Shapes == {"broken", "empty", "file", "group", "struct", "union", "class",
           "namespace", "two"}

Document(shape, x) ==
    CASE shape = "broken" -> [ok |-> FALSE]
      [] shape = "empty" -> [ok |-> TRUE, compounddef |-> <<>>]
      [] shape = "file" -> [ok |-> TRUE, compounddef |-> <<FileDef(x)>>]
      [] shape = "group" -> [ok |-> TRUE, compounddef |-> <<GroupDef(x)>>]
      [] shape = "two" -> [ok |-> TRUE, compounddef |-> <<FileDef(x), PlainDef("struct", "s")>>]
      [] OTHER -> [ok |-> TRUE, compounddef |-> <<PlainDef(shape, x)>>]

Documents(sa, sb) ==
    [a |-> Document(sa, "a"), b |-> Document(sb, "b"), p |-> Document("struct", "p")]

IndexKinds == {"file", "group", "struct", "class", "union",
               "page", "dir", "category", "concept", "example",
               "namespace", "interface"}

\* Entries for runs that differ in the documents.
PlainEntries == [refid : {"a", "b"}, kind : {"file", "page"}]

\* Entries for runs that differ in the index kinds.
KindEntries ==
    [refid : {"a"}, kind : IndexKinds]
    \cup [refid : {"b"}, kind : {"file", "page", "namespace"}]

\* Enough further compounds to reach the dispatch threshold.
Padding == [i \in 1..DispatchThreshold |-> [refid |-> "p", kind |-> "struct"]]

\* One compound of every parsed kind, a page and an unknown kind.
OneOfEach ==
    <<[refid |-> "a", kind |-> "file"], [refid |-> "b", kind |-> "group"],
      [refid |-> "a", kind |-> "page"], [refid |-> "b", kind |-> "struct"],
      [refid |-> "a", kind |-> "namespace"], [refid |-> "a", kind |-> "class"],
      [refid |-> "b", kind |-> "union"]>>

XmlDirs ==
    {[index |-> s, docs |-> Documents(sa, sb)] :
        s \in SeqsUpTo(PlainEntries, MaxIndex), sa \in Shapes, sb \in {"struct", "broken"}}
    \cup {[index |-> s \o Padding, docs |-> Documents(sa, "struct")] :
        s \in SeqsUpTo(PlainEntries, 1), sa \in {"broken", "file", "struct"}}
    \cup {[index |-> s, docs |-> Documents("struct", "struct")] :
        s \in SeqsUpTo(KindEntries, MaxIndex) \cup {OneOfEach}}

InitMain ==
    /\ InitPoolVars
    /\ pc = "start"
    /\ xml \in XmlDirs
    /\ ids = <<>>
    /\ nodes = <<>>
    /\ warnings = <<>>
    /\ output = PyNone
    /\ probe = [fn |-> "none"]

NextMain == ParseAll \/ StartTask \/ FinishTask \/ LoopNext \/ PrintOutput

SpecMain == InitMain /\ [][NextMain]_vars

(***************************************************************************)
(* Claims about the dispatcher.                                            *)
(***************************************************************************)
\* func returns for every item of the latest call's collection.
FuncTotal == \A p \in DOMAIN call.collected : call.func[call.collected[p]].ok

\* The triple the contract promises for input position k (0-based).
Promised(k) ==
    EvItem(call.func[call.collected[k + 1]].val, call.collected[k + 1], k)

\* C1: for every func that returns for every item, every finite collection
\* and every mode, the call returns an iterator whose k-th element is
\* (func(item_k), item_k, k), one element per input item and nothing else.
C1_OrderedTriples ==
    (call.mode # "idle" /\ FuncTotal) =>
        /\ call.mode \in {"seq", "pool"}
        /\ \A i \in DOMAIN events :
              IF i <= Len(call.collected)
              THEN events[i] = Promised(i - 1)
              ELSE events[i] = EvStop

\* The part of C1 that the code keeps: whenever the call returns an iterator
\* (it does unless the collection is empty, the threshold is not positive and
\* the process flavour is asked for), the triples are the promised ones.
C1_OrderedWhenIterator ==
    (call.mode \in {"seq", "pool"} /\ FuncTotal) =>
        \A i \in DOMAIN events :
              IF i <= Len(call.collected)
              THEN events[i] = Promised(i - 1)
              ELSE events[i] = EvStop

C1_Drained ==
    /\ call.mode = "pool"
    /\ call.use_process
    /\ FuncTotal
    /\ Len(call.collected) = MaxLen
    /\ Len(it.tasks) > 1
    /\ LastIs(events, {"stop"})

\* C2: when func raises for position k the exception surfaces at the k-th
\* next(), every triple the caller gets for another position j is
\* (func(item_j), item_j, j), and when the iterator ends every position whose
\* func returns has been delivered.
C2_FailureIsolated ==
    call.mode \in {"seq", "pool"} =>
        \A i \in DOMAIN events :
           /\ events[i].e = "item" =>
                 /\ events[i].index = i - 1
                 /\ call.func[call.collected[i]].ok
                 /\ events[i] = Promised(i - 1)
           /\ events[i].e = "raise" => events[i].at = i - 1
           /\ events[i].e = "stop" =>
                 \A k \in 0..(Len(call.collected) - 1) :
                    call.func[call.collected[k + 1]].ok =>
                       \E j \in 1..(i - 1) : events[j] = Promised(k)

\* C9: a call below its threshold constructs no pool and submits nothing; the
\* first pooled call of a flavour constructs that flavour's pool and every
\* later one uses the same pool; no pool is ever shut down.
PooledCalls(flavour) ==
    {i \in DOMAIN calls : calls[i].pooled /\ calls[i].use_process = flavour}

C9_PoolsReused ==
    /\ \A i \in DOMAIN calls :
          ~calls[i].pooled =>
             ~calls[i].created /\ calls[i].executor = 0 /\ calls[i].submitted = 0
    /\ \A flavour \in BOOLEAN :
          LET mine == PooledCalls(flavour)
              global == IF flavour THEN process_executor ELSE thread_executor
              name == IF flavour THEN "process" ELSE "thread"
              made == {q \in DOMAIN pools : pools[q].flavour = name}
          IN IF mine = {}
             THEN global = 0 /\ made = {}
             ELSE /\ made = {global}
                  /\ \A i \in mine :
                        /\ calls[i].executor = global
                        /\ calls[i].created <=> i = Min(mine)
    /\ \A q \in DOMAIN pools : pools[q].alive
    /\ Len(pools) = Cardinality({i \in DOMAIN calls : calls[i].created})

C9_SecondPooledCall ==
    /\ Len(calls) = MaxCalls
    /\ \E i, j \in DOMAIN calls :
          /\ i < j
          /\ calls[i].pooled /\ calls[j].pooled
          /\ calls[i].use_process = calls[j].use_process
          /\ calls[j].submitted > 0
    /\ \E i \in DOMAIN calls : ~calls[i].pooled
    /\ Len(pools) = 1

(***************************************************************************)
(* Claims about the parsers.                                               *)
(***************************************************************************)
\* The three candidates in priority order: file attribute, line attribute.
Candidates == <<<<"bodyfile", "bodystart">>, <<"file", "line">>, <<"declfile", "declline">>>>

\* Candidate i of loc is present and names a header.
Qualifies(loc, i) ==
    LET a == Candidates[i][1]
    IN /\ a \in DOMAIN loc.attrs
       /\ loc.attrs[a].t = "chars"
       /\ loc.attrs[a].c # <<>>
       /\ Len(loc.attrs[a].c) >= 2
       /\ loc.attrs[a].c[Len(loc.attrs[a].c) - 1] = "."
       /\ loc.attrs[a].c[Len(loc.attrs[a].c)] = "h"

\* C6: parse_location resolves the first of body, primary, declaration whose
\* file is present and ends in '.h', with that candidate's line; with no
\* location record or no such candidate the file is '' and the line None.
C6_LocationPriority ==
    (probe.fn = "parse_location" /\ probe.out # PyNone) =>
        LET loc == probe.in.location
            q == IF loc = PyNone THEN {} ELSE {i \in 1..3 : Qualifies(loc, i)}
            file == GetAttr(probe.out, "file")
            line == GetAttr(probe.out, "line")
        IN /\ {"file", "line"} \subseteq DOMAIN probe.out.dict
           /\ IF q = {}
              THEN file = PyChars(<<>>) /\ line = PyNone
              ELSE LET c == Candidates[Min(q)]
                   IN /\ file = loc.attrs[c[1]]
                      /\ line = IF c[2] \in DOMAIN loc.attrs THEN loc.attrs[c[2]]
                                ELSE PyNone

\* A source-file body and primary location do not hide a header declaration.
C6_DeclBehindSources ==
    /\ probe.fn = "parse_location"
    /\ probe.out # PyNone
    /\ probe.in.location # PyNone
    /\ probe.in.location.attrs =
          [bodyfile |-> PyChars(<<"b", ".", "c">>), bodystart |-> PyInt(1),
           file |-> PyChars(<<"f", ".", "c">>), line |-> PyInt(2),
           declfile |-> PyChars(<<"d", ".", "h">>), declline |-> PyInt(3)]
    /\ GetAttr(probe.out, "file") = PyChars(<<"d", ".", "h">>)
    /\ GetAttr(probe.out, "line") = PyInt(3)

RECURSIVE SectionRefs(_)
SectionRefs(sectiondefs) ==
    IF sectiondefs = <<>> THEN {}
    ELSE Range(Head(sectiondefs).member) \cup SectionRefs(Tail(sectiondefs))

\* The function-kind member definitions of all sections, in document order.
RECURSIVE FunctionDefs(_)
FunctionDefs(sectiondefs) ==
    IF sectiondefs = <<>> THEN <<>>
    ELSE SelectSeq(Head(sectiondefs).memberdef, LAMBDA md : md.kind = "function")
         \o FunctionDefs(Tail(sectiondefs))

\* C10: the container comes first and its children_ids is the union of the
\* inner references, the member references and the ids of the parsed
\* functions, absent when that union is empty; the rest of the list is
\* exactly the parsed functions.
C10_ContainerChildren ==
    (probe.fn \in {"parse_file", "parse_group"} /\ probe.out # PyNone) =>
        LET c == probe.in
            out == probe.out.items
            fdefs == FunctionDefs(c.sectiondef)
            expected == Range(c.innerclass) \cup Range(c.innergroup)
                        \cup SectionRefs(c.sectiondef)
                        \cup {fdefs[i].id : i \in DOMAIN fdefs}
        IN /\ Len(out) = 1 + Len(fdefs)
           /\ out[1].cls = IF probe.fn = "parse_file" THEN "File" ELSE "Group"
           /\ NodeId(out[1]) = c.id
           /\ IF expected = {}
              THEN /\ "children_ids" \notin DOMAIN out[1].dict
                   /\ GetAttr(out[1], "children_ids") = PyNone
              ELSE GetAttr(out[1], "children_ids") = PySet(expected)
           /\ \A i \in DOMAIN fdefs :
                 /\ out[i + 1].cls = "Function"
                 /\ NodeId(out[i + 1]) = fdefs[i].id

C10_AllThreeSources ==
    /\ probe.fn = "parse_group"
    /\ probe.out # PyNone
    /\ Len(probe.in.sectiondef) = MaxSections
    /\ probe.in.innerclass # <<>>
    /\ probe.in.innergroup # <<>>
    /\ Len(probe.out.items) >= 3
    /\ {"c1", "g1", "r1", "m1", "m2"} \subseteq GetAttr(probe.out.items[1], "children_ids").elems

C10_NoChildren ==
    /\ probe.fn = "parse_file"
    /\ probe.out # PyNone
    /\ "children_ids" \notin DOMAIN probe.out.items[1].dict
    /\ Len(probe.in.sectiondef) = MaxSections

(***************************************************************************)
(* Claims about the whole run.                                             *)
(***************************************************************************)
\* The node objects of a list, those inside nested lists included, in order.
RECURSIVE FlatNodes(_)
FlatNodes(items) ==
    IF items = <<>> THEN <<>>
    ELSE (IF Head(items).t = "list" THEN FlatNodes(Head(items).items) ELSE <<Head(items)>>)
         \o FlatNodes(Tail(items))

\* The JSON objects of an array, those inside nested arrays included.
RECURSIVE FlatJson(_)
FlatJson(items) ==
    IF items = <<>> THEN <<>>
    ELSE (IF Head(items).j = "array" THEN FlatJson(Head(items).items) ELSE <<Head(items)>>)
         \o FlatJson(Tail(items))

\* The dispatched ids whose document cannot be processed.
FailingIds == {id \in Range(ids) : ~xml.docs[id].ok}

\* What process_compound returns for the first k dispatched ids, concatenated.
RECURSIVE MergedUpTo(_)
MergedUpTo(k) ==
    IF k = 0 THEN <<>> ELSE MergedUpTo(k - 1) \o ProcessCompound(xml.docs, ids[k]).val

\* C3: when process_compound fails for a dispatched id the run never gets
\* past parse_all and nothing is printed; when the document is printed every
\* dispatched id succeeded and its result was merged into nodes before.
C3_OutputOnlyAfterSuccess ==
    /\ (pc # "start" /\ FailingIds # {}) => (pc \in {"loop", "failed"} /\ output = PyNone)
    /\ pc = "failed" => (LastIs(events, {"raise"}) /\ output = PyNone)
    /\ output # PyNone =>
          /\ pc = "done"
          /\ FailingIds = {}
          /\ nodes = MergedUpTo(Len(ids))

C3_AbortedAfterPartialMerge ==
    /\ pc = "failed"
    /\ call.mode = "pool"
    /\ nodes # <<>>
    /\ output = PyNone

\* C4: after parse_all every element of nodes is a single node, and every
\* node produced for a dispatched compound is one of its elements.
C4_NodesFlat ==
    pc \in {"parsed", "done"} =>
        /\ \A i \in DOMAIN nodes : nodes[i].t = "obj"
        /\ \A k \in DOMAIN ids :
              \A n \in Range(FlatNodes(ProcessCompound(xml.docs, ids[k]).val)) :
                 \E i \in DOMAIN nodes : nodes[i] = n

NodeFields(cls) ==
    {"id", "kind", "name", "file", "line", "desc"}
    \cup (IF cls = "Group" THEN {"title"} ELSE {})
    \cup (IF cls = "Function" THEN {"return_type", "params"} ELSE {})

\* C5: in the output every node is an object with every field of its variant,
\* its kind among file, group, union, struct, func, and every relationship
\* set it has is a list of exactly the set's ids.
C5_OutputFields ==
    output # PyNone =>
        LET ns == FlatNodes(nodes)
            rs == FlatJson(output.items)
        IN /\ Len(rs) = Len(ns)
           /\ \A i \in DOMAIN ns :
                 /\ rs[i].j = "object"
                 /\ NodeFields(ns[i].cls) \subseteq DOMAIN rs[i].members
                 /\ rs[i].members.kind.s \in {"file", "group", "union", "struct", "func"}
                 /\ \A a \in {"children_ids", "parent_ids"} \cap DOMAIN ns[i].dict :
                       /\ rs[i].members[a].j = "array"
                       /\ Len(rs[i].members[a].items) = Cardinality(ns[i].dict[a].elems)
                       /\ {rs[i].members[a].items[k].s : k \in DOMAIN rs[i].members[a].items}
                             = ns[i].dict[a].elems

\* The entries of the index of one kind class, counted per refid.
CountWhere(s, P(_)) == Cardinality({i \in DOMAIN s : P(s[i])})

\* C7: the ids handed to the dispatcher are, as a multiset, the refids of the
\* compounds of kind file, group, struct, class or union; the kinds page, dir,
\* category, concept and example add nothing; every other compound adds one
\* warning and no id.
C7_IndexFilter ==
    pc # "start" =>
        LET parsed == {"file", "group", "struct", "class", "union"}
            skipped == {"page", "dir", "category", "concept", "example"}
            unknown == SelectSeq(xml.index, LAMBDA c : c.kind \notin parsed \cup skipped)
            logged == SelectSeq(warnings, LAMBDA w : w.src = "index")
        IN /\ calls[1].pooled = (Len(ids) >= DispatchThreshold)
           /\ call.collected = ids
           /\ \A r \in {"a", "b", "p"} :
                 CountWhere(ids, LAMBDA x : x = r)
                    = CountWhere(xml.index, LAMBDA c : c.refid = r /\ c.kind \in parsed)
           /\ Len(ids) = CountWhere(xml.index, LAMBDA c : c.kind \in parsed)
           /\ logged = [i \in DOMAIN unknown |-> [src |-> "index", kind |-> unknown[i].kind]]

C7_OneOfEachKind ==
    /\ pc = "done"
    /\ xml.index = OneOfEach
    /\ Len(ids) = 5
    /\ ids # <<"a", "b", "b", "a", "b">>
    /\ Len(warnings) = 1

\* C8: after parse_all, a node listed as a child by a node of the collection
\* has that node's id in its parent_ids, and parent_ids is absent only for a
\* node nobody lists.
ChildrenOf(o) ==
    IF GetAttr(o, "children_ids") = PyNone THEN {} ELSE GetAttr(o, "children_ids").elems

C8_ParentBackReference ==
    pc \in {"parsed", "done"} =>
        LET all == Range(FlatNodes(nodes))
        IN \A child \in all :
              LET parents == {NodeId(n) : n \in {n \in all : NodeId(child) \in ChildrenOf(n)}}
                  got == GetAttr(child, "parent_ids")
              IN IF parents = {} THEN TRUE
                 ELSE IF got = PyNone THEN FALSE
                 ELSE parents \subseteq got.elems

====
